---- MODULE Spec2Model ----
(***************************************************************************)
(* A model of the two GPX -> LV95 "Kroki" converters of the repository:    *)
(*   prog = "gpx2lv95"  : src/gpx2lv95.py (argparse CLI, pyproj)           *)
(*   prog = "kroki"     : src/gpx2kroki/gpx_to_swiss_kroki.py              *)
(* One run of one program on one GPX document.  Lengths are metres,        *)
(* latitudes and longitudes hundredths of a degree, angles whole degrees.  *)
(***************************************************************************)
EXTENDS Integers, Sequences, FiniteSets

VARIABLES
    prog,            \* which of the two scripts is run
    use_height_api,  \* args.use_height_api / fetch_elevation
    doc,             \* the GPX document: its trkpt, rtept and wpt elements
    pc,              \* position of the run
    points,          \* raw_points / points: the (lat, lon, ele) tuples
    idx,             \* 1-based index of the next point of the point loop
    profile,         \* gpx2lv95: build_profile's list of dicts
    swiss_points,    \* kroki: generate_kroki's list of (e, n, ele)
    netlog,          \* the run's Height API calls and sleeps, in order
    report,          \* the report text emitted, None until then
    errmsg,          \* the error the run reported, "" if none
    exit_status      \* None while running, then Some(status)

vars == <<prog, use_height_api, doc, pc, points, idx, profile, swiss_points,
          netlog, report, errmsg, exit_status>>

----------------------------------------------------------------------------
(* Bounds of the model *)

\* most point elements (trkpt + rtept + wpt) in a document
MaxPts == 2

\* latitudes and longitudes of the elements, in hundredths of a degree
Lats == {4600, 4601}
Lons == {740, 741}
\* elevations an <ele> child may hold, and heights the service may return
Eles == {10, 20}
Heights == {15}

----------------------------------------------------------------------------
(* Optional values: Python's None and a present value *)

None == <<>>
Some(v) == <<v>>
Val(o) == o[1]

SeqsUpTo(S, n) == UNION {[1..k -> S] : k \in 0..n}

RECURSIVE SumSeq(_)
SumSeq(s) == IF s = <<>> THEN 0 ELSE Head(s) + SumSeq(Tail(s))

Max(a, b) == IF a >= b THEN a ELSE b

----------------------------------------------------------------------------
(* The GPX document *)

\* a trkpt / rtept / wpt element: its lat and lon attributes and its <ele>
\* child, each present or absent
WellFormedElems == [lat : {Some(x) : x \in Lats}, lon : {Some(x) : x \in Lons},
                    ele : {None} \cup {Some(h) : h \in Eles}]
NoLatElems == [lat : {None}, lon : {Some(740)}, ele : {None} \cup {Some(h) : h \in Eles}]
NoLonElems == [lat : {Some(4600)}, lon : {None}, ele : {None} \cup {Some(h) : h \in Eles}]
Elems == WellFormedElems \cup NoLatElems \cup NoLonElems

\* the document whose elements are s[1..i] (trkpt), s[i+1..j] (rtept), the rest (wpt)
MkDoc(s, i, j) ==
    [trkpt |-> SubSeq(s, 1, i), rtept |-> SubSeq(s, i + 1, j),
     wpt |-> SubSeq(s, j + 1, Len(s))]

----------------------------------------------------------------------------
(* Point extraction *)

HasCoords(elem) == elem.lat # None /\ elem.lon # None

\* the (lat, lon, ele) tuple of an element that has both coordinates
RawPoint(elem) == [lat |-> Val(elem.lat), lon |-> Val(elem.lon), ele |-> elem.ele]

\* gpx2lv95 parse_gpx: the first non-empty findall() list wins; _extract
\* raises TypeError (float(None)) on an element without lat or lon
Gpx2lv95Found(d) ==
    IF d.trkpt # <<>> THEN d.trkpt
    ELSE IF d.rtept # <<>> THEN d.rtept
    ELSE d.wpt

Gpx2lv95ParseGpx(d) ==
    LET found == Gpx2lv95Found(d)
    IN  IF \E i \in 1..Len(found) : ~HasCoords(found[i])
        THEN [raised |-> "TypeError", points |-> <<>>]
        ELSE [raised |-> "",
              points |-> [i \in 1..Len(found) |-> RawPoint(found[i])]]

\* kroki parse_gpx, one of its three loops: elements without lat or lon are
\* skipped (continue), the others appended in document order
KrokiExtract(elems) ==
    LET kept == SelectSeq(elems, HasCoords)
    IN  [i \in 1..Len(kept) |-> RawPoint(kept[i])]

\* as KrokiParseGpx, but every loop runs whatever the list holds
KrokiParseGpxMerged(d) ==
    KrokiExtract(d.trkpt) \o KrokiExtract(d.rtept) \o KrokiExtract(d.wpt)

\* kroki parse_gpx: rtept is tried if the trkpt loop appended nothing, wpt if
\* the list is still empty
KrokiParseGpx(d) ==
    LET p1 == KrokiExtract(d.trkpt)
        p2 == IF p1 = <<>> THEN KrokiExtract(d.rtept) ELSE p1
        p3 == IF p2 = <<>> THEN KrokiExtract(d.wpt) ELSE p2
    IN  p3

----------------------------------------------------------------------------
(* Projection, distance, azimuth *)

\* wgs84_to_lv95: swisstopo's approximate formulas.  The auxiliary values are
\* kept in thousandths (lat_aux * 1000), the result in whole metres.
LatAux(lat) == (lat * 3600 - 16902866) \div 1000
LonAux(lon) == (lon * 3600 - 2678250) \div 1000

wgs84_to_lv95(lat, lon) ==
    LET la == LatAux(lat)
        lo == LonAux(lon)
    IN  [e |-> 2600072 + (211456 * lo) \div 1000
                       - (10939 * lo * la) \div 1000000
                       - ((36 * lo * la * la) \div 1000000) \div 100000
                       - (45 * lo * lo * lo) \div 1000000000,
         n |-> 1200147 + (308808 * la) \div 1000
                       + (3745 * lo * lo) \div 1000000
                       + (77 * la * la) \div 1000000
                       - (19 * lo * lo * la) \div 100000000
                       + (12 * la * la * la) \div 100000000]

\* LV95_TRANSFORMER.transform(lon, lat) of gpx2lv95: the same projection
\* (EPSG:4326 -> EPSG:2056), done by pyproj
LV95Transform(lon, lat) == wgs84_to_lv95(lat, lon)

Abs(x) == IF x < 0 THEN -x ELSE x

\* floor of the square root
RECURSIVE SqrtFrom(_, _)
SqrtFrom(x, r) == IF (r + 1) * (r + 1) > x THEN r ELSE SqrtFrom(x, r + 1)

RECURSIVE ISqrt(_)
ISqrt(x) ==
    IF x < 4 THEN SqrtFrom(x, 0)
    ELSE LET r == 2 * ISqrt(x \div 4)
         IN  IF (r + 1) * (r + 1) > x THEN r ELSE r + 1

\* calculate_distance: math.sqrt((e2 - e1)**2 + (n2 - n1)**2)
calculate_distance(e1, n1, e2, n2) ==
    ISqrt((e2 - e1) * (e2 - e1) + (n2 - n1) * (n2 - n1))

\* atan in degrees of a / b for 0 <= a <= b, b > 0: between 0 and 45, and
\* not 0 unless a is 0
AtanDeg(a, b) ==
    LET z == (a * 1000) \div b
        d == (z * (45000 + 16 * (1000 - z))) \div 1000000
    IN  IF a = 0 THEN 0 ELSE Max(1, d)

\* math.degrees(math.atan2(y, x)) in whole degrees: in -179..180, negative
\* exactly when y < 0; atan2(0, 0) is 0
Atan2Deg(y, x) ==
    LET ay == Abs(y)
        ax == Abs(x)
        \* the angle of (ay, ax), in 0..90
        q == IF ay = 0 THEN 0
             ELSE IF ay <= ax THEN AtanDeg(ay, ax)
             ELSE 90 - AtanDeg(ax, ay)
        \* the angle of (ay, x), in 0..180
        h == IF x >= 0 THEN q ELSE 180 - q
    IN  IF y >= 0 THEN h ELSE -h

\* GEOD.inv(lon1, lat1, lon2, lat2) of gpx2lv95: pyproj's forward azimuth, in
\* degrees east of north and between -180 and 180, and the distance.  Taken
\* on the local tangent plane: 0.01 degree is 1112 m north and 772 m east.
GeodInv(lon1, lat1, lon2, lat2) ==
    LET dx == (lon2 - lon1) * 772
        dy == (lat2 - lat1) * 1112
    IN  [azimuth |-> Atan2Deg(dx, dy), dist |-> ISqrt(dx * dx + dy * dy)]

\* kroki calculate_azimuth: atan2 in degrees, 360 added to a negative angle
calculate_azimuth(e1, n1, e2, n2) ==
    LET delta_e == e2 - e1
        delta_n == n2 - n1
        azimuth_deg == Atan2Deg(delta_e, delta_n)
    IN  IF azimuth_deg < 0 THEN azimuth_deg + 360 ELSE azimuth_deg

----------------------------------------------------------------------------
(* The Height API and the elevation resolvers *)

\* what one request to the Height API comes to
Failures == {"timeout", "http_error", "malformed", "no_height"}
Responses ==
    {[kind |-> "ok", height |-> Some(h)] : h \in Heights}
    \cup {[kind |-> k, height |-> None] : k \in Failures}
NoResponse == [kind |-> "none", height |-> None]

\* gpx2lv95 fetch_elevation: is requests.get reached?
Gpx2lv95Requests(ele, use) == ele = None /\ use

\* gpx2lv95 fetch_elevation: the float it returns.  requests.get raises on a
\* timeout, raise_for_status on a non-2xx status, resp.json() on a malformed
\* body and data["height"] on a missing field; the except clause returns 0.0
fetch_elevation(ele, resp, use) ==
    IF ele # None THEN Some(Val(ele))
    ELSE IF ~use THEN Some(0)
    ELSE IF resp.kind \in {"timeout", "http_error", "malformed", "no_height"}
         THEN Some(0)
    ELSE Some(Val(resp.height))

\* as KrokiRequests, but without the test of the point's own elevation
KrokiRequestsAlways(ele, fetch) == fetch

\* kroki generate_kroki: is fetch_elevation_swisstopo called for the point?
KrokiRequests(ele, fetch) == ele = None /\ fetch

\* kroki fetch_elevation_swisstopo: urlopen raises on a timeout and on a
\* non-2xx status, json.loads on a malformed body (the except clause prints a
\* warning); without a 'height' key nothing is returned either
fetch_elevation_swisstopo(resp) ==
    IF resp.kind \in {"timeout", "http_error", "malformed"} THEN None
    ELSE IF resp.height # None THEN Some(Val(resp.height))
    ELSE None

Get(i, resp) == [op |-> "GET", pt |-> i, resp |-> resp]
Sleep(i) == [op |-> "sleep", pt |-> i, resp |-> NoResponse]

\* as Gpx2lv95Net, but a failed request is tried a second time
Gpx2lv95NetRetry(i, ele, resp, use) ==
    IF Gpx2lv95Requests(ele, use)
    THEN (IF resp.kind # "ok" THEN <<Get(i, resp), Get(i, resp)>> ELSE <<Get(i, resp)>>)
    ELSE <<>>

\* the network events of one build_profile iteration of gpx2lv95
Gpx2lv95Net(i, ele, resp, use) ==
    IF Gpx2lv95Requests(ele, use) THEN <<Get(i, resp)>> ELSE <<>>

\* the network events of one iteration of generate_kroki's first loop: the
\* request, then time.sleep(0.1)
KrokiNet(i, ele, resp, fetch) ==
    IF KrokiRequests(ele, fetch) THEN <<Get(i, resp), Sleep(i)>> ELSE <<>>

----------------------------------------------------------------------------
(* Profile and report *)

\* f"{x:.2f}" of an elevation, and the marker printed in its place
Fmt2(x) == <<"%.2f", x * 100>>
NA == <<"N/A">>

\* gpx2lv95 build_profile: the dict appended for point i, given the profile
\* built so far and the point's resolved elevation.  dist, azim and d_ele
\* keep their initial 0.0 for the first point.
Gpx2lv95Entry(i, pts, prof, resolved_ele) ==
    LET pt == pts[i]
        en == LV95Transform(pt.lon, pt.lat)
        prev == pts[i - 1]
        seg == IF i > 1 THEN GeodInv(prev.lon, prev.lat, pt.lon, pt.lat)
               ELSE [azimuth |-> 0, dist |-> 0]
        d_ele == IF i > 1 THEN Val(resolved_ele) - Val(prof[Len(prof)].ele)
                 ELSE 0
    IN  [e |-> en.e, n |-> en.n, ele |-> resolved_ele, dist |-> seg.dist,
         azimuth |-> seg.azimuth, delta_ele |-> d_ele]

\* gpx2lv95 format_profile: one table row
Gpx2lv95Row(i, prof) ==
    LET pt == prof[i]
    IN  [pt |-> i, e |-> pt.e, n |-> pt.n, dist |-> pt.dist,
         elev |-> IF pt.ele # None THEN Fmt2(Val(pt.ele)) ELSE NA,
         delta_ele |-> pt.delta_ele, azimuth |-> pt.azimuth]

\* gpx2lv95 format_profile: are the ascent and descent lines written?
Gpx2lv95HasTotals(prof) == \A i \in 1..Len(prof) : prof[i].ele # None

\* gpx2lv95 format_profile
format_profile(prof) ==
    [rows |-> [i \in 1..Len(prof) |-> Gpx2lv95Row(i, prof)],
     total_dist |-> SumSeq([i \in 1..Len(prof) |-> prof[i].dist]),
     totals |->
        IF Gpx2lv95HasTotals(prof)
        THEN Some([ascent |-> SumSeq([i \in 1..(Len(prof) - 1) |->
                                      Max(0, prof[i + 1].delta_ele)]),
                   descent |-> SumSeq([i \in 1..(Len(prof) - 1) |->
                                       Max(0, -prof[i + 1].delta_ele)])])
        ELSE None]

\* kroki generate_kroki, first loop: the tuple appended for a point
KrokiSwissPoint(pt, ele) ==
    LET en == wgs84_to_lv95(pt.lat, pt.lon)
    IN  [e |-> en.e, n |-> en.n, ele |-> ele]

\* as KrokiRow, but without the branch for the first point, whose previous
\* point swiss_points[i-2] is then Python's swiss_points[-1], the last one
KrokiRowNoFirst(i, sp) ==
    LET cur == sp[i]
        prev == IF i = 1 THEN sp[Len(sp)] ELSE sp[i - 1]
        known == cur.ele # None /\ prev.ele # None
    IN  [pt |-> i, e |-> cur.e, n |-> cur.n,
         dist |-> calculate_distance(prev.e, prev.n, cur.e, cur.n),
         elev |-> IF known THEN Fmt2(Val(cur.ele)) ELSE NA,
         delta_ele |-> IF known THEN Val(cur.ele) - Val(prev.ele) ELSE 0,
         azimuth |-> calculate_azimuth(prev.e, prev.n, cur.e, cur.n)]

\* kroki generate_kroki, second loop: the table row of point i
KrokiRow(i, sp) ==
    LET cur == sp[i]
        prev == sp[i - 1]
        known == cur.ele # None /\ prev.ele # None
    IN  IF i = 1
        THEN [pt |-> i, e |-> cur.e, n |-> cur.n, dist |-> 0,
              elev |-> IF cur.ele # None THEN Fmt2(Val(cur.ele)) ELSE NA,
              delta_ele |-> 0, azimuth |-> 0]
        ELSE [pt |-> i, e |-> cur.e, n |-> cur.n,
              dist |-> calculate_distance(prev.e, prev.n, cur.e, cur.n),
              elev |-> IF known THEN Fmt2(Val(cur.ele)) ELSE NA,
              delta_ele |-> IF known THEN Val(cur.ele) - Val(prev.ele) ELSE 0,
              azimuth |-> calculate_azimuth(prev.e, prev.n, cur.e, cur.n)]

\* kroki generate_kroki: are the ascent and descent lines written?
KrokiHasTotals(sp) == \A i \in 1..Len(sp) : sp[i].ele # None

\* as KrokiOutput, but the total runs over range(1, len(swiss_points) - 1)
\* and so leaves out the last segment
KrokiOutputShortTotal(sp) ==
    [rows |-> [i \in 1..Len(sp) |-> KrokiRow(i, sp)],
     total_dist |-> SumSeq([i \in 1..(Len(sp) - 2) |->
                        calculate_distance(sp[i].e, sp[i].n, sp[i + 1].e, sp[i + 1].n)]),
     totals |->
        IF KrokiHasTotals(sp)
        THEN Some([ascent |-> SumSeq([i \in 1..(Len(sp) - 1) |->
                                Max(0, Val(sp[i + 1].ele) - Val(sp[i].ele))]),
                   descent |-> SumSeq([i \in 1..(Len(sp) - 1) |->
                                Max(0, Val(sp[i].ele) - Val(sp[i + 1].ele))])])
        ELSE None]

\* kroki generate_kroki: the output text, from the table on
KrokiOutput(sp) ==
    [rows |-> [i \in 1..Len(sp) |-> KrokiRow(i, sp)],
     total_dist |-> SumSeq([i \in 1..(Len(sp) - 1) |->
                        calculate_distance(sp[i].e, sp[i].n, sp[i + 1].e, sp[i + 1].n)]),
     totals |->
        IF KrokiHasTotals(sp)
        THEN Some([ascent |-> SumSeq([i \in 1..(Len(sp) - 1) |->
                                Max(0, Val(sp[i + 1].ele) - Val(sp[i].ele))]),
                   descent |-> SumSeq([i \in 1..(Len(sp) - 1) |->
                                Max(0, Val(sp[i].ele) - Val(sp[i + 1].ele))])])
        ELSE None]

----------------------------------------------------------------------------
(* The run *)

Progs == {"gpx2lv95", "kroki"}

Init ==
    /\ prog \in Progs
    /\ use_height_api \in BOOLEAN
    /\ \E s \in SeqsUpTo(Elems, MaxPts) :
         \E i \in 0..Len(s) : \E j \in i..Len(s) : doc = MkDoc(s, i, j)
    /\ pc = "parse"
    /\ points = <<>>
    /\ idx = 1
    /\ profile = <<>>
    /\ swiss_points = <<>>
    /\ netlog = <<>>
    /\ report = None
    /\ errmsg = ""
    /\ exit_status = None

\* gpx2lv95 main: raw_points = parse_gpx(args.gpx_file); an exception is
\* logged by the except clause, which exits with status 1
Gpx2lv95Parse ==
    /\ prog = "gpx2lv95" /\ pc = "parse"
    /\ LET res == Gpx2lv95ParseGpx(doc)
       IN  IF res.raised # ""
           THEN /\ errmsg' = res.raised
                /\ exit_status' = Some(1)
                /\ pc' = "done"
                /\ UNCHANGED points
           ELSE /\ points' = res.points
                /\ pc' = "check"
                /\ UNCHANGED <<errmsg, exit_status>>
    /\ UNCHANGED <<prog, use_height_api, doc, idx, profile, swiss_points,
                   netlog, report>>

\* gpx2lv95 main: an empty list raises ValueError, caught like the others
Gpx2lv95Check ==
    /\ prog = "gpx2lv95" /\ pc = "check"
    /\ IF points = <<>>
       THEN /\ errmsg' = "ValueError"
            /\ exit_status' = Some(1)
            /\ pc' = "done"
       ELSE /\ pc' = "loop"
            /\ UNCHANGED <<errmsg, exit_status>>
    /\ UNCHANGED <<prog, use_height_api, doc, points, idx, profile,
                   swiss_points, netlog, report>>

\* gpx2lv95 build_profile: one iteration of the loop over the points
Gpx2lv95BuildStep ==
    /\ prog = "gpx2lv95" /\ pc = "loop" /\ idx <= Len(points)
    /\ LET ele == points[idx].ele
       IN  \E resp \in (IF Gpx2lv95Requests(ele, use_height_api)
                        THEN Responses ELSE {NoResponse}) :
             /\ netlog' = netlog \o Gpx2lv95Net(idx, ele, resp, use_height_api)
             /\ profile' = Append(profile,
                   Gpx2lv95Entry(idx, points, profile,
                                 fetch_elevation(ele, resp, use_height_api)))
    /\ idx' = idx + 1
    /\ UNCHANGED <<prog, use_height_api, doc, pc, points, swiss_points,
                   report, errmsg, exit_status>>

\* gpx2lv95 main: report = format_profile(profile), written out; main returns
Gpx2lv95Format ==
    /\ prog = "gpx2lv95" /\ pc = "loop" /\ idx > Len(points)
    /\ report' = Some(format_profile(profile))
    /\ exit_status' = Some(0)
    /\ pc' = "done"
    /\ UNCHANGED <<prog, use_height_api, doc, points, idx, profile,
                   swiss_points, netlog, errmsg>>

\* kroki generate_kroki: points = parse_gpx(gpx_file)
KrokiParse ==
    /\ prog = "kroki" /\ pc = "parse"
    /\ points' = KrokiParseGpx(doc)
    /\ pc' = "check"
    /\ UNCHANGED <<prog, use_height_api, doc, idx, profile, swiss_points,
                   netlog, report, errmsg, exit_status>>

\* kroki generate_kroki: with no points an error is printed to stderr and
\* generate_kroki returns; main then ends normally
KrokiCheck ==
    /\ prog = "kroki" /\ pc = "check"
    /\ IF points = <<>>
       THEN /\ errmsg' = "Error: No points found in GPX file"
            /\ exit_status' = Some(0)
            /\ pc' = "done"
       ELSE /\ pc' = "loop"
            /\ UNCHANGED <<errmsg, exit_status>>
    /\ UNCHANGED <<prog, use_height_api, doc, points, idx, profile,
                   swiss_points, netlog, report>>

\* kroki generate_kroki: one iteration of the first loop
KrokiConvertStep ==
    /\ prog = "kroki" /\ pc = "loop" /\ idx <= Len(points)
    /\ LET pt == points[idx]
           asks == KrokiRequests(pt.ele, use_height_api)
       IN  \E resp \in (IF asks THEN Responses ELSE {NoResponse}) :
             /\ netlog' = netlog \o KrokiNet(idx, pt.ele, resp, use_height_api)
             /\ swiss_points' = Append(swiss_points,
                   KrokiSwissPoint(pt, IF asks THEN fetch_elevation_swisstopo(resp)
                                       ELSE pt.ele))
    /\ idx' = idx + 1
    /\ UNCHANGED <<prog, use_height_api, doc, pc, points, profile, report,
                   errmsg, exit_status>>

\* kroki generate_kroki: the table and the totals, printed or written;
\* main then ends normally
KrokiWrite ==
    /\ prog = "kroki" /\ pc = "loop" /\ idx > Len(points)
    /\ report' = Some(KrokiOutput(swiss_points))
    /\ exit_status' = Some(0)
    /\ pc' = "done"
    /\ UNCHANGED <<prog, use_height_api, doc, points, idx, profile,
                   swiss_points, netlog, errmsg>>

Next ==
    \/ Gpx2lv95Parse
    \/ Gpx2lv95Check
    \/ Gpx2lv95BuildStep
    \/ Gpx2lv95Format
    \/ KrokiParse
    \/ KrokiCheck
    \/ KrokiConvertStep
    \/ KrokiWrite

Spec == Init /\ [][Next]_vars

----------------------------------------------------------------------------
(* Vocabulary of the properties *)

\* the points a category yields: its elements that have both coordinates
CategoryPoints(c) ==
    LET usable == SelectSeq(doc[c], HasCoords)
    IN  [i \in 1..Len(usable) |-> RawPoint(usable[i])]

\* the first category, in the order trkpt, rtept, wpt, that yields a point;
\* "" if none does
SelectedCategory ==
    IF CategoryPoints("trkpt") # <<>> THEN "trkpt"
    ELSE IF CategoryPoints("rtept") # <<>> THEN "rtept"
    ELSE IF CategoryPoints("wpt") # <<>> THEN "wpt"
    ELSE ""

\* point extraction has returned its list
Extracted == pc # "parse" /\ errmsg # "TypeError"

\* the requests made for point i, as positions of netlog
CallsFor(i) == {k \in 1..Len(netlog) : netlog[k].op = "GET" /\ netlog[k].pt = i}
FailedCallsFor(i) == {k \in CallsFor(i) : netlog[k].resp.kind # "ok"}

\* the elevation of point i comes from the input or from a successful lookup
FromRealSource(i) ==
    \/ points[i].ele # None
    \/ \E k \in CallsFor(i) : netlog[k].resp.kind = "ok"

\* the points resolved so far and their resolved elevations
NumResolved == IF prog = "gpx2lv95" THEN Len(profile) ELSE Len(swiss_points)
ResolvedEle(i) == IF prog = "gpx2lv95" THEN profile[i].ele ELSE swiss_points[i].ele

\* what an unresolved elevation is held as: 0.0 in gpx2lv95, None in kroki
Sentinel == IF prog = "gpx2lv95" THEN Some(0) ELSE None

Emitted == report # None
Rows == Val(report).rows

----------------------------------------------------------------------------
(* C1 *)

\* C1: in every emitted report the "Total ascent" and "Total descent" lines
\* are present if and only if every point's elevation came from the input or
\* from a successful lookup.
C1_TotalsIffAllReal ==
    Emitted =>
        ((Val(report).totals # None) <=> (\A i \in 1..Len(points) : FromRealSource(i)))

----------------------------------------------------------------------------
(* C2 *)

\* C2: a failed lookup for a point never aborts the run: the point resolves
\* to the sentinel, exactly one request was made for it, the run reports no
\* error, until it is done it stays in the point loop with the following
\* point as its next one, and once done it has emitted a report with one row
\* per point and ended with status 0.
C2_FailedLookupNeverAborts ==
    \A i \in 1..Len(points) :
        FailedCallsFor(i) # {} =>
            /\ i <= NumResolved
            /\ ResolvedEle(i) = Sentinel
            /\ Cardinality(CallsFor(i)) = 1
            /\ errmsg = ""
            /\ pc # "done" => (pc = "loop" /\ idx = NumResolved + 1)
            /\ pc = "done" =>
                  /\ Emitted
                  /\ Len(Rows) = Len(points)
                  /\ exit_status = Some(0)

\* a run is done whose first of two points had a failed lookup
C2_Witness ==
    /\ pc = "done"
    /\ Len(points) = 2
    /\ FailedCallsFor(1) # {}
    /\ Emitted

----------------------------------------------------------------------------
(* C3 *)

\* C3: a point whose elevation is present in the input resolves to that
\* elevation and no request is made for it; requests are made only for points
\* without elevation and only when lookup is allowed.
C3_PresentElevationUntouched ==
    /\ \A i \in 1..NumResolved :
          points[i].ele # None =>
              /\ ResolvedEle(i) = points[i].ele
              /\ CallsFor(i) = {}
    /\ \A k \in 1..Len(netlog) :
          netlog[k].op = "GET" =>
              /\ points[netlog[k].pt].ele = None
              /\ use_height_api

\* with lookup allowed, a point with an elevation has been resolved next to
\* one that was looked up
C3_Witness ==
    /\ use_height_api
    /\ NumResolved = 2
    /\ \E i \in 1..2 : points[i].ele # None /\ CallsFor(3 - i) # {}

----------------------------------------------------------------------------
(* C4 *)

\* C4: within a run no request to the Height API directly follows another
\* one: a sleep lies between any two consecutive requests.
C4_SleepBetweenRequests ==
    \A k \in 1..(Len(netlog) - 1) :
        netlog[k].op = "GET" => netlog[k + 1].op # "GET"

----------------------------------------------------------------------------
(* C5 *)

\* C5: the list extraction returns holds the points of exactly one category,
\* the first of trkpt, rtept, wpt that yields at least one point (and no
\* point at all if none does).
C5_FirstYieldingCategoryOnly ==
    Extracted =>
        /\ \A c \in {"trkpt", "rtept", "wpt"} :
              SelectedCategory = c => points = CategoryPoints(c)
        /\ SelectedCategory = "" => points = <<>>

\* extraction returned the track point of a document that also holds a
\* usable route point
C5_Witness ==
    /\ Extracted
    /\ CategoryPoints("trkpt") # <<>>
    /\ CategoryPoints("rtept") # <<>>
    /\ points = CategoryPoints("trkpt")

----------------------------------------------------------------------------
(* C6 *)

\* C6: when the selected category holds N >= 1 point elements, an emitted
\* report has exactly N rows and row i is the i-th element of the category:
\* no element is dropped, duplicated or reordered.
C6_OneRowPerPointInOrder ==
    (Emitted /\ SelectedCategory # "") =>
        LET elems == doc[SelectedCategory]
        IN  /\ Len(Rows) = Len(elems)
            /\ \A i \in 1..Len(elems) :
                  /\ HasCoords(elems[i])
                  /\ LET en == wgs84_to_lv95(Val(elems[i].lat), Val(elems[i].lon))
                     IN  Rows[i].pt = i /\ Rows[i].e = en.e /\ Rows[i].n = en.n

----------------------------------------------------------------------------
(* C7 *)

\* C7: every azimuth of the profile and of the report lies in [0, 360).
C7_AzimuthInRange ==
    /\ \A i \in 1..Len(profile) : profile[i].azimuth >= 0 /\ profile[i].azimuth < 360
    /\ Emitted => \A i \in 1..Len(Rows) : Rows[i].azimuth >= 0 /\ Rows[i].azimuth < 360

----------------------------------------------------------------------------
(* C8 *)

\* C8: a run on a document none of whose categories yields a point ends as a
\* fatal failure: no point was processed, no report is emitted and the exit
\* status is not 0.
C8_NoPointsIsFatal ==
    (pc = "done" /\ SelectedCategory = "") =>
        /\ profile = <<>>
        /\ swiss_points = <<>>
        /\ ~Emitted
        /\ exit_status # Some(0)

----------------------------------------------------------------------------
(* C9 *)

\* C9: if an element of the selected category lacks lat or lon, the run ends
\* with an error, a non-zero status and no report.
C9_MissingCoordinateIsFatal ==
    (/\ pc = "done"
     /\ SelectedCategory # ""
     /\ \E i \in 1..Len(doc[SelectedCategory]) : ~HasCoords(doc[SelectedCategory][i]))
    => (errmsg # "" /\ ~Emitted /\ exit_status # Some(0))

----------------------------------------------------------------------------
(* C10 *)

\* C10: the first entry of every profile, and the first row of every report,
\* has distance 0, delta-elevation 0 and azimuth 0.
C10_FirstEntryZero ==
    /\ profile # <<>> =>
          (profile[1].dist = 0 /\ profile[1].delta_ele = 0 /\ profile[1].azimuth = 0)
    /\ Emitted =>
          (Rows[1].dist = 0 /\ Rows[1].delta_ele = 0 /\ Rows[1].azimuth = 0)

\* a report of two points in different places is emitted whose first point
\* got its elevation from a lookup
C10_Witness ==
    /\ Emitted
    /\ Len(Rows) = 2
    /\ Rows[2].dist > 0
    /\ \E k \in CallsFor(1) : netlog[k].resp.kind = "ok"

----------------------------------------------------------------------------
(* C11 *)

\* C11: the total distance of an emitted report is the sum of the distances
\* of its rows 2..N; with a single row it is 0.
C11_TotalDistanceIsRowSum ==
    Emitted =>
        /\ Val(report).total_dist =
              SumSeq([i \in 1..(Len(Rows) - 1) |-> Rows[i + 1].dist])
        /\ Len(Rows) = 1 => Val(report).total_dist = 0

\* a report of two rows with a total distance that is not 0 is emitted
C11_Witness ==
    /\ Emitted
    /\ Len(Rows) = 2
    /\ Val(report).total_dist > 0

----------------------------------------------------------------------------
(* C12 *)

\* C12: in an emitted report a row shows the "N/A" marker only if its own
\* point's elevation is unresolved, and the row of every point whose
\* elevation is known (from the input or a successful lookup) shows that
\* elevation, whatever is known of the previous point.
C12_MarkerOnlyForOwnElevation ==
    Emitted =>
        \A i \in 1..Len(Rows) :
            /\ Rows[i].elev = NA => ~FromRealSource(i)
            /\ FromRealSource(i) => Rows[i].elev = Fmt2(Val(ResolvedEle(i)))

====
